---- MODULE Spec2Model ----
(***************************************************************************)
(* Model of manipmongo's mongoManipulator: the transaction registry, the   *)
(* write path (Create, Update, Delete, DeleteMany), Commit / Abort and the *)
(* page-window arithmetic of RetrieveMany.                                 *)
(*                                                                         *)
(* Callers are goroutines ("workers").  A call is cut into steps at the    *)
(* points where it touches state other goroutines can see: a registry      *)
(* access, the staging into a transaction's bulks, one bulk.Run, the       *)
(* deferred close + unregister.  Spec runs the calls one at a time,        *)
(* SpecConc lets the workers interleave.                                   *)
(***************************************************************************)
EXTENDS Integers, Sequences, FiniteSets, TLC

VARIABLES
    registry,   \* s.transactions: transaction id -> reference into txns
    txns,       \* the heap of transaction objects: slot -> object or Free
    th,         \* per worker: the call it is in, its locals and its result
    retired     \* history: caller-chosen ids retired and not registered since

vars == <<registry, txns, th, retired>>

----------------------------------------------------------------------------
(* Bounds of the model *)

MaxTxns == 2        \* transaction objects alive at the same time
MaxObjs == 2        \* objects passed to one write call
MaxOps  == 2        \* operations staged in one transaction by explicit calls
MaxCount == 10      \* largest collection size Count reports
MaxPage == 4        \* largest |Page| requested
MaxPageSize == 3    \* largest PageSize requested

Workers == {"w1", "w2"}
Categories == {"a", "b"}

NoID == <<"", 0>>                       \* the empty TransactionID
ExplicitIDs == {<<"x", 1>>}               \* ids callers choose
Nil == 0                                \* the nil *transaction

ObjLists == UNION {[1..n -> Categories] : n \in 0..MaxObjs}

RECURSIVE SumSeq(_)
SumSeq(s) == IF s = <<>> THEN 0 ELSE Head(s) + SumSeq(Tail(s))

SetMax(S) == IF S = {} THEN 0 ELSE CHOOSE m \in S : \A k \in S : k <= m

----------------------------------------------------------------------------
(* Transaction registry and transaction objects *)

transactionWithID(id) ==
    IF id \in DOMAIN registry THEN registry[id] ELSE Nil

registerTransaction(id, ref) ==
    [k \in (DOMAIN registry) \cup {id} |-> IF k = id THEN ref ELSE registry[k]]

unregisterTransaction(id) ==
    [k \in (DOMAIN registry) \ {id} |-> registry[k]]

newTransaction(id) ==
    [id |-> id, bulks |-> <<>>, closed |-> 0, live |-> TRUE]

\* an unused slot of the heap
Free == [id |-> NoID, bulks |-> <<>>, closed |-> 0, live |-> FALSE]

Slots == 1..MaxTxns

LiveSlots == {k \in Slots : txns[k].live}

\* the slot the next transaction object is put in
Alloc == CHOOSE k \in Slots \ LiveSlots : \A j \in Slots \ LiveSlots : k <= j

\* the heap once the objects nothing refers to any more are reclaimed;
\* keep is the set of slots still referred to
Collect(heap, keep) ==
    [k \in Slots |-> IF k \in keep THEN heap[k] ELSE Free]

\* slots the registry reg and the workers other than t refer to
Referenced(reg, t) ==
    {reg[id] : id \in DOMAIN reg} \cup {th[u].txn : u \in Workers \ {t}}

closeSession(tx) ==
    [tx EXCEPT !.closed = @ + 1]

\* position of the category's bulk in tx.bulks, 0 when it has none yet
BulkIndex(tx, cat) ==
    SetMax({k \in 1..Len(tx.bulks) : tx.bulks[k].cat = cat})

\* the transaction with the category's bulk created if missing
bulkForIdentity(tx, cat) ==
    IF BulkIndex(tx, cat) # 0 THEN tx
    ELSE [tx EXCEPT !.bulks = Append(@, [cat |-> cat, ops |-> <<>>, runs |-> 0,
                                        applied |-> 0, last |-> "none"])]

\* a fresh id: the generated ids are unique, so it differs from every id
\* a transaction or a worker still carries
GeneratedInUse ==
    {txns[k].id[2] : k \in {j \in LiveSlots : txns[j].id[1] = "g"}}
    \cup {th[w].id[2] : w \in {u \in Workers : th[u].id[1] = "g"}}

NewTransactionID ==
    <<"g", CHOOSE n \in 1..(Cardinality(GeneratedInUse) + 1) :
               /\ n \notin GeneratedInUse
               /\ \A m \in 1..(n - 1) : m \in GeneratedInUse>>

----------------------------------------------------------------------------
(* Workers *)

\* no read call made
NoRead == [page |-> 0, pageSize |-> 0, counted |-> "no", n |-> 0,
           query |-> "none", skip |-> 0, limit |-> 0,
           outcomes |-> <<>>, looked |-> 0]

Idle == [pc |-> "idle", op |-> "none", ctxTid |-> NoID, id |-> NoID,
         objs |-> <<>>, failAt |-> 0, txn |-> Nil, commit |-> FALSE,
         i |-> 0, staged |-> 0, ran |-> 0, closes |-> 0,
         result |-> "none", regBefore |-> << >>, opsBefore |-> 0,
         retiredBefore |-> FALSE, rd |-> NoRead]

Init ==
    /\ registry = << >>
    /\ txns = [k \in Slots |-> Free]
    /\ th = [w \in Workers |-> Idle]
    /\ retired = {}

----------------------------------------------------------------------------
(* Write path *)

TotalOps(tx) == SumSeq([k \in 1..Len(tx.bulks) |-> Len(tx.bulks[k].ops)])

\* room left for a call that stages n operations under ctxTid
Room(ctxTid, n) ==
    /\ Cardinality(LiveSlots) + Cardinality({u \in Workers : th[u].pc = "register"}) < MaxTxns
    /\ transactionWithID(ctxTid) # Nil =>
           TotalOps(txns[transactionWithID(ctxTid)]) + n <= MaxOps

\* retrieveTransaction up to the lookup: the id the call works under and
\* whether it was generated
retrieveTid(ctxTid) == IF ctxTid = NoID THEN NewTransactionID ELSE ctxTid

\* faulty variant: created is set whether or not the context carries an id
retrieveCreatedAlways(ctxTid) == ctxTid \in ExplicitIDs \cup {NoID}

retrieveCreated(ctxTid) == ctxTid = NoID

\* entry of a write call that goes on to retrieveTransaction: the lookup
\* half of retrieveTransaction
EnterWrite(t, op, ctxTid, objs, failAt) ==
    LET tid == retrieveTid(ctxTid)
        found == transactionWithID(tid)
    IN  /\ th[t].pc = "idle"
        /\ Room(ctxTid, IF op = "DeleteMany" THEN 1 ELSE Len(objs))
        /\ th' = [th EXCEPT ![t] =
                    [Idle EXCEPT !.pc = IF found # Nil THEN "stage" ELSE "register",
                                 !.op = op, !.ctxTid = ctxTid, !.id = tid,
                                 !.objs = objs, !.failAt = failAt,
                                 !.txn = found,
                                 !.commit = retrieveCreated(ctxTid),
                                 !.opsBefore = IF found # Nil THEN TotalOps(txns[found]) ELSE 0,
                                 !.regBefore = registry]]
        /\ UNCHANGED <<registry, txns, retired>>

\* a call that returns at once, touching nothing
ReturnAtOnce(t, op, ctxTid, result) ==
    /\ th[t].pc = "idle"
    /\ th' = [th EXCEPT ![t] =
                [Idle EXCEPT !.pc = "done", !.op = op, !.ctxTid = ctxTid,
                             !.result = result, !.regBefore = registry]]
    /\ UNCHANGED <<registry, txns, retired>>

Create(t, ctxTid, children, failAt) ==
    EnterWrite(t, "Create", ctxTid, children, failAt)

Update(t, ctxTid, objects) ==
    IF Len(objects) = 0
    THEN ReturnAtOnce(t, "Update", ctxTid, "nil")
    ELSE EnterWrite(t, "Update", ctxTid, objects, 0)

Delete(t, ctxTid, objects) ==
    IF Len(objects) = 0
    THEN ReturnAtOnce(t, "Delete", ctxTid, "nil")
    ELSE EnterWrite(t, "Delete", ctxTid, objects, 0)

DeleteMany(t, ctxTid, identity) ==
    EnterWrite(t, "DeleteMany", ctxTid, <<identity>>, 0)

\* retrieveTransaction after a lookup that found nothing: build and register
RegisterTransaction(t) ==
    /\ th[t].pc = "register"
    /\ txns' = [txns EXCEPT ![Alloc] = newTransaction(th[t].id)]
    /\ registry' = registerTransaction(th[t].id, Alloc)
    /\ th' = [th EXCEPT ![t].pc = "stage", ![t].txn = Alloc]
    /\ retired' = retired \ {th[t].id}

\* faulty variant: the object is inserted before its finalizer is called
StagedCountAfterInsert(objs, failAt) ==
    IF failAt \in 1..Len(objs) THEN failAt ELSE Len(objs)

\* how many of the objects get staged: all, or those before the one the
\* CreateFinalizer rejects
StagedCount(objs, failAt) ==
    IF failAt \in 1..Len(objs) THEN failAt - 1 ELSE Len(objs)

\* tx with ops appended to the bulk of category cat
StageInto(tx, cat, ops) ==
    LET tx1 == bulkForIdentity(tx, cat)
        k == BulkIndex(tx1, cat)
    IN  [tx1 EXCEPT !.bulks[k].ops = @ \o ops]

\* bulkForIdentity(objects[0].Identity()) and the staging loop, then the
\* choice between the nested Commit and returning
Stage(t) ==
    LET me == th[t]
        n == StagedCount(me.objs, me.failAt)
        ops == [k \in 1..n |-> me.objs[k]]
    IN  /\ me.pc = "stage"
        /\ IF Len(me.objs) = 0
           THEN \* children[0] of an empty list: index out of range
                /\ th' = [th EXCEPT ![t].pc = "done", ![t].result = "panic"]
                /\ UNCHANGED <<registry, txns, retired>>
           ELSE /\ txns' = [txns EXCEPT ![me.txn] = StageInto(@, me.objs[1], ops)]
                /\ th' = [th EXCEPT
                            ![t].staged = n,
                            ![t].pc = IF n < Len(me.objs) THEN "done"
                                      ELSE IF me.commit THEN "commit" ELSE "done",
                            ![t].result = IF n < Len(me.objs) THEN "FinalizerError"
                                          ELSE IF me.commit THEN "none" ELSE "nil"]
                /\ UNCHANGED <<registry, retired>>

----------------------------------------------------------------------------
(* Commit / Abort *)

\* ids a caller may pass to Commit and Abort: a generated id never leaves
\* the write call that generated it
KnownIDs == ExplicitIDs

\* a caller invokes Commit(id)
Commit(t, id) ==
    /\ th[t].pc = "idle"
    /\ th' = [th EXCEPT ![t] =
                [Idle EXCEPT !.pc = "commit", !.op = "Commit", !.id = id,
                             !.retiredBefore = id \in retired,
                             !.regBefore = registry]]
    /\ UNCHANGED <<registry, txns, retired>>

\* faulty variant: the nil check returns without the error
AfterLookupSwallow(found) ==
    IF found = Nil THEN [pc |-> "done", result |-> "nil"]
    ELSE IF Len(txns[found].bulks) = 0 THEN [pc |-> "defer", result |-> "nil"]
    ELSE [pc |-> "run", result |-> "none"]

\* where Commit goes after its lookup: the nil check, then the loop (or,
\* with no bulk to run, straight to the deferred function)
AfterLookup(found) ==
    IF found = Nil THEN [pc |-> "done", result |-> "TransactionNotFound"]
    ELSE IF Len(txns[found].bulks) = 0 THEN [pc |-> "defer", result |-> "nil"]
    ELSE [pc |-> "run", result |-> "none"]

\* Commit's lookup, for a direct call and for the one nested in a write call
CommitLookup(t) ==
    LET found == transactionWithID(th[t].id)
    IN  /\ th[t].pc = "commit"
        /\ th' = [th EXCEPT
                    ![t].txn = found,
                    ![t].i = 1,
                    ![t].pc = AfterLookup(found).pc,
                    ![t].result = AfterLookup(found).result]
        /\ UNCHANGED <<registry, txns, retired>>

RunOutcomes == {"ok", "dup", "err"}

\* the error Commit returns for a failed bulk.Run
CommitError(outcome) ==
    IF outcome = "dup" THEN "ConstraintViolation" ELSE "CannotCommit"

\* faulty variant: the loop goes on after a failed bulk
CommitContinuesAlways(outcome) == outcome \in RunOutcomes

\* whether the loop goes on to the next bulk after this outcome
CommitContinues(outcome) == outcome = "ok"

\* faulty variant: close and unregister sit after the loop instead of in a defer:
\* an error return skips them
AfterRunNoDefer(outcome, last) ==
    IF CommitContinues(outcome) THEN (IF last THEN "defer" ELSE "run") ELSE "done"

\* where Commit goes after one bulk.Run: the next bulk, or the return, which
\* runs the deferred function first
AfterRun(outcome, last) ==
    IF CommitContinues(outcome) /\ ~last THEN "run" ELSE "defer"

\* one turn of the loop over transaction.bulks
CommitRun(t, outcome) ==
    LET me == th[t]
        last == me.i >= Len(txns[me.txn].bulks)
    IN  /\ me.pc = "run"
        /\ txns' = [txns EXCEPT ![me.txn].bulks[me.i] =
                      [@ EXCEPT !.runs = @ + 1,
                                !.applied = @ + (IF outcome = "ok" THEN 1 ELSE 0),
                                !.last = outcome]]
        /\ th' = [th EXCEPT
                    ![t].i = IF CommitContinues(outcome) THEN me.i + 1 ELSE me.i,
                    ![t].ran = @ + 1,
                    ![t].pc = AfterRun(outcome, last),
                    ![t].result = IF CommitContinues(outcome)
                                  THEN (IF last THEN "nil" ELSE "none")
                                  ELSE CommitError(outcome)]
        /\ UNCHANGED <<registry, retired>>

\* faulty variant: the deferred function closes the session and leaves the registry
CommitDeferKeep(t) ==
    /\ th[t].pc = "defer"
    /\ txns' = [txns EXCEPT ![th[t].txn] = closeSession(@)]
    /\ retired' = retired \cup ({th[t].id} \cap ExplicitIDs)
    /\ th' = [th EXCEPT ![t].pc = "done", ![t].closes = @ + 1]
    /\ UNCHANGED registry

\* Commit's deferred function
CommitDefer(t) ==
    /\ th[t].pc = "defer"
    /\ txns' = [txns EXCEPT ![th[t].txn] = closeSession(@)]
    /\ registry' = unregisterTransaction(th[t].id)
    /\ retired' = retired \cup ({th[t].id} \cap ExplicitIDs)
    /\ th' = [th EXCEPT ![t].pc = "done", ![t].closes = @ + 1]

\* Abort up to its lookup
Abort(t, id) ==
    LET found == transactionWithID(id)
    IN  /\ th[t].pc = "idle"
        /\ th' = [th EXCEPT ![t] =
                    [Idle EXCEPT !.pc = IF found = Nil THEN "done" ELSE "abort",
                                 !.op = "Abort", !.id = id, !.txn = found,
                                 !.result = IF found = Nil THEN "false" ELSE "none",
                                 !.regBefore = registry]]
        /\ UNCHANGED <<registry, txns, retired>>

\* faulty variant: Abort closes the session and leaves the registry
AbortCloseKeep(t) ==
    /\ th[t].pc = "abort"
    /\ txns' = [txns EXCEPT ![th[t].txn] = closeSession(@)]
    /\ retired' = retired \cup ({th[t].id} \cap ExplicitIDs)
    /\ th' = [th EXCEPT ![t].pc = "done", ![t].closes = @ + 1, ![t].result = "true"]
    /\ UNCHANGED registry

\* Abort after a lookup that found the transaction
AbortClose(t) ==
    /\ th[t].pc = "abort"
    /\ txns' = [txns EXCEPT ![th[t].txn] = closeSession(@)]
    /\ registry' = unregisterTransaction(th[t].id)
    /\ retired' = retired \cup ({th[t].id} \cap ExplicitIDs)
    /\ th' = [th EXCEPT ![t].pc = "done", ![t].closes = @ + 1, ![t].result = "true"]

\* the caller takes the result; the worker is free for its next call
Return(t) ==
    /\ th[t].pc = "done"
    /\ th' = [th EXCEPT ![t] = Idle]
    /\ txns' = Collect(txns, Referenced(registry, t))
    /\ UNCHANGED <<registry, retired>>

----------------------------------------------------------------------------
(* Read path: RetrieveMany *)

\* faulty variant: maxPage is not rounded up for the short leading page
ReverseWindowFloor(n, page, pageSize) ==
    LET skip == n - page * pageSize
        balance == n % pageSize
        maxPage == n \div pageSize
    IN  IF skip >= 0
        THEN [query |-> "window", skip |-> skip, limit |-> pageSize]
        ELSE IF page > maxPage
             THEN [query |-> "none", skip |-> 0, limit |-> 0]
             ELSE [query |-> "window", skip |-> 0, limit |-> balance]

\* faulty variant: the clamped page asks for a full page
ReverseWindowFullPage(n, page, pageSize) ==
    LET skip == n - page * pageSize
        balance == n % pageSize
        maxPage == (n \div pageSize) + (IF balance # 0 THEN 1 ELSE 0)
    IN  IF skip >= 0
        THEN [query |-> "window", skip |-> skip, limit |-> pageSize]
        ELSE IF page > maxPage
             THEN [query |-> "none", skip |-> 0, limit |-> 0]
             ELSE [query |-> "window", skip |-> 0, limit |-> pageSize]

\* faulty variant: maxPage is incremented whatever the balance
ReverseWindowAlwaysRounds(n, page, pageSize) ==
    LET skip == n - page * pageSize
        balance == n % pageSize
        maxPage == (n \div pageSize) + 1
    IN  IF skip >= 0
        THEN [query |-> "window", skip |-> skip, limit |-> pageSize]
        ELSE IF page > maxPage
             THEN [query |-> "none", skip |-> 0, limit |-> 0]
             ELSE [query |-> "window", skip |-> 0, limit |-> balance]

\* the window of a reverse page once Count has returned n: the query to
\* issue ("window", or "none" when the page does not exist) with its skip
\* and limit
ReverseWindow(n, page, pageSize) ==
    LET skip == n - page * pageSize
        balance == n % pageSize
        maxPage == (n \div pageSize) + (IF balance # 0 THEN 1 ELSE 0)
    IN  IF skip >= 0
        THEN [query |-> "window", skip |-> skip, limit |-> pageSize]
        ELSE IF page > maxPage
             THEN [query |-> "none", skip |-> 0, limit |-> 0]
             ELSE [query |-> "window", skip |-> 0, limit |-> balance]

\* the branch RetrieveMany takes for (Page, PageSize)
PageBranch(page, pageSize) ==
    IF page = 0 \/ pageSize = 0 THEN "all"
    ELSE IF page > 0 THEN "forward"
    ELSE "reverse"

\* faulty variant: pages are counted from 0
ForwardWindowFromZero(page, pageSize) ==
    [skip |-> page * pageSize, limit |-> pageSize]

\* faulty variant: the skip is counted in pages instead of items
ForwardWindowSkipsPages(page, pageSize) ==
    [skip |-> page - 1, limit |-> pageSize]

\* skip and limit of a forward page
ForwardWindow(page, pageSize) ==
    [skip |-> (page - 1) * pageSize, limit |-> pageSize]

\* what RetrieveMany asks of the backend for (Page, PageSize) when Count,
\* if it is called, answers n or fails
PageQuery(page, pageSize, n, countFails) ==
    IF PageBranch(page, pageSize) = "all"
    THEN [NoRead EXCEPT !.page = page, !.pageSize = pageSize, !.query = "all"]
    ELSE IF PageBranch(page, pageSize) = "forward"
    THEN [NoRead EXCEPT !.page = page, !.pageSize = pageSize, !.query = "window",
                        !.skip = ForwardWindow(page, pageSize).skip,
                        !.limit = ForwardWindow(page, pageSize).limit]
    ELSE IF countFails
    THEN [NoRead EXCEPT !.page = page, !.pageSize = pageSize, !.counted = "failed"]
    ELSE LET w == ReverseWindow(n, -page, pageSize)
         IN  [NoRead EXCEPT !.page = page, !.pageSize = pageSize,
                            !.counted = "ok", !.n = n, !.query = w.query,
                            !.skip = w.skip, !.limit = w.limit]

\* the whole call: it works on a copy of the root session and returns
RetrieveMany(t, ctxTid, page, pageSize, n, countFails, findFails) ==
    LET q == PageQuery(page, pageSize, n, countFails)
        failed == q.counted = "failed" \/ (q.query # "none" /\ findFails)
    IN  /\ th[t].pc = "idle"
        /\ th' = [th EXCEPT ![t] =
                    [Idle EXCEPT !.pc = "done", !.op = "RetrieveMany",
                                 !.ctxTid = ctxTid,
                                 !.result = IF failed THEN "CannotExecuteQuery" ELSE "nil",
                                 !.regBefore = registry, !.rd = q]]
        /\ UNCHANGED <<registry, txns, retired>>

\* what one lookup of Retrieve can answer
LookupOutcomes == {"found", "notfound", "err"}

OutcomeLists == UNION {[1..n -> LookupOutcomes] : n \in 0..MaxObjs}

\* faulty variant: a failed lookup is skipped and the last failure is returned
RetrieveLoopKeepsGoing(outcomes, i) ==
    [looked |-> Len(outcomes),
     result |-> IF \E k \in 1..Len(outcomes) : outcomes[k] # "found"
                THEN LET k == SetMax({j \in 1..Len(outcomes) : outcomes[j] # "found"})
                     IN  IF outcomes[k] = "notfound" THEN "ObjectNotFound"
                                                     ELSE "CannotExecuteQuery"
                ELSE "nil"]

\* the loop of Retrieve from object i on: how many lookups it runs and what
\* it returns
RECURSIVE RetrieveLoop(_, _)
RetrieveLoop(outcomes, i) ==
    IF i > Len(outcomes) THEN [looked |-> i - 1, result |-> "nil"]
    ELSE IF outcomes[i] = "notfound" THEN [looked |-> i, result |-> "ObjectNotFound"]
    ELSE IF outcomes[i] = "err" THEN [looked |-> i, result |-> "CannotExecuteQuery"]
    ELSE RetrieveLoop(outcomes, i + 1)

\* the whole call: one lookup per object on a copy of the root session;
\* outcomes[k] is the answer the backend gives for objects[k]
Retrieve(t, ctxTid, outcomes) ==
    LET r == RetrieveLoop(outcomes, 1)
    IN  /\ th[t].pc = "idle"
        /\ th' = [th EXCEPT ![t] =
                    [Idle EXCEPT !.pc = "done", !.op = "Retrieve",
                                 !.ctxTid = ctxTid, !.result = r.result,
                                 !.regBefore = registry,
                                 !.rd = [NoRead EXCEPT !.outcomes = outcomes,
                                                       !.looked = r.looked]]]
        /\ UNCHANGED <<registry, txns, retired>>

\* faulty variant: Count retires the transaction of the context
CountRetires(t, ctxTid, n, countFails) ==
    /\ th[t].pc = "idle"
    /\ th' = [th EXCEPT ![t] =
                [Idle EXCEPT !.pc = "done", !.op = "Count", !.ctxTid = ctxTid,
                             !.result = IF countFails THEN "CannotExecuteQuery" ELSE "nil",
                             !.regBefore = registry,
                             !.rd = [NoRead EXCEPT !.counted = IF countFails THEN "failed" ELSE "ok",
                                                   !.n = IF countFails THEN 0 ELSE n]]]
    /\ registry' = unregisterTransaction(ctxTid)
    /\ UNCHANGED <<txns, retired>>

\* the whole call: one count on a copy of the root session
Count(t, ctxTid, n, countFails) ==
    /\ th[t].pc = "idle"
    /\ th' = [th EXCEPT ![t] =
                [Idle EXCEPT !.pc = "done", !.op = "Count", !.ctxTid = ctxTid,
                             !.result = IF countFails THEN "CannotExecuteQuery" ELSE "nil",
                             !.regBefore = registry,
                             !.rd = [NoRead EXCEPT !.counted = IF countFails THEN "failed" ELSE "ok",
                                                   !.n = IF countFails THEN 0 ELSE n]]]
    /\ UNCHANGED <<registry, txns, retired>>

----------------------------------------------------------------------------
(* Specifications *)

CtxIDs == ExplicitIDs \cup {NoID}

Call(t) ==
    /\ th[t].pc = "idle"
    /\ \/ \E c \in CtxIDs, objs \in ObjLists, f \in 0..MaxObjs :
              f <= Len(objs) /\ Create(t, c, objs, f)
       \/ \E c \in CtxIDs, objs \in ObjLists : Update(t, c, objs)
       \/ \E c \in CtxIDs, objs \in ObjLists : Delete(t, c, objs)
       \/ \E c \in CtxIDs, cat \in Categories : DeleteMany(t, c, cat)
       \/ \E id \in KnownIDs : Commit(t, id)
       \/ \E id \in KnownIDs : Abort(t, id)

Step(t) ==
    \/ RegisterTransaction(t)
    \/ Stage(t)
    \/ CommitLookup(t)
    \/ \E o \in RunOutcomes : CommitRun(t, o)
    \/ CommitDefer(t)
    \/ AbortClose(t)
    \/ Return(t)

\* one caller: every call runs to its return before the next one starts
Caller == CHOOSE w \in Workers : TRUE

Next == Call(Caller) \/ Step(Caller)

Spec == Init /\ [][Next]_vars

\* the calls concurrent workers make: write calls that share an explicit
\* id, and the calls that retire it
CallConc(t) ==
    /\ th[t].pc = "idle"
    /\ \/ \E c \in ExplicitIDs, objs \in ObjLists :
              Len(objs) = 1 /\ Create(t, c, objs, 0)
       \/ \E c \in ExplicitIDs, objs \in ObjLists :
              Len(objs) = 1 /\ Update(t, c, objs)
       \/ \E id \in KnownIDs : Commit(t, id)
       \/ \E id \in KnownIDs : Abort(t, id)

NextConc == \E t \in Workers : CallConc(t) \/ Step(t)

SpecConc == Init /\ [][NextConc]_vars

\* the read path alone, over every (Page, PageSize, count) within the bounds
Pages == (0 - MaxPage)..MaxPage
PageSizes == (0 - MaxPageSize)..MaxPageSize

CallPage(t) ==
    \/ \E c \in CtxIDs, page \in Pages, pageSize \in PageSizes, n \in 0..MaxCount,
          countFails \in BOOLEAN, findFails \in BOOLEAN :
           RetrieveMany(t, c, page, pageSize, n, countFails, findFails)
    \/ \E c \in CtxIDs, outcomes \in OutcomeLists : Retrieve(t, c, outcomes)
    \/ \E c \in CtxIDs, n \in 0..MaxCount, countFails \in BOOLEAN :
           Count(t, c, n, countFails)

NextPage == CallPage(Caller) \/ Return(Caller)

SpecPage == Init /\ [][NextPage]_vars

\* the write path with read calls in between: reads run in states where
\* transactions are registered and hold staged operations
CallRead(t) ==
    \/ \E c \in CtxIDs, page \in {0 - 1, 0, 1}, n \in 0..1,
          countFails \in BOOLEAN, findFails \in BOOLEAN :
           RetrieveMany(t, c, page, 1, n, countFails, findFails)
    \/ \E c \in CtxIDs, outcomes \in [1..1 -> LookupOutcomes] : Retrieve(t, c, outcomes)
    \/ \E c \in CtxIDs, n \in 0..1, countFails \in BOOLEAN : Count(t, c, n, countFails)

NextRead == Call(Caller) \/ Step(Caller) \/ CallRead(Caller)

SpecRead == Init /\ [][NextRead]_vars

----------------------------------------------------------------------------
(* Properties *)

WriteOps == {"Create", "Update", "Delete", "DeleteMany"}

Returned(t) == th[t].pc = "done"

\* every bulk of every transaction object alive, as <<slot, position>>
AllBulks == UNION {{<<k, b>> : b \in 1..Len(txns[k].bulks)} : k \in LiveSlots}

\* C1: Commit(id) for an id the registry does not hold returns
\* TransactionNotFound, runs no bulk, closes no session and leaves the
\* registry as it was.
C1_CommitUnknownId ==
    \A t \in Workers :
        (Returned(t) /\ th[t].op = "Commit" /\ th[t].id \notin DOMAIN th[t].regBefore)
        => /\ th[t].result = "TransactionNotFound"
           /\ th[t].ran = 0
           /\ th[t].closes = 0
           /\ registry = th[t].regBefore

\* a Commit of an unregistered id has returned while the registry holds
\* another transaction
C1_Witness ==
    \E t \in Workers :
        /\ Returned(t) /\ th[t].op = "Commit"
        /\ th[t].id \notin DOMAIN th[t].regBefore
        /\ th[t].result = "TransactionNotFound"
        /\ DOMAIN registry # {}

\* C2: when Commit(id) returns for a registered id, whatever its result,
\* the transaction's session has been closed exactly once and the id is out
\* of the registry.
C2_CommitRetires ==
    \A t \in Workers :
        (Returned(t) /\ th[t].op = "Commit" /\ th[t].id \in DOMAIN th[t].regBefore)
        => /\ th[t].result \in {"nil", "ConstraintViolation", "CannotCommit"}
           /\ th[t].txn = th[t].regBefore[th[t].id]
           /\ txns[th[t].txn].closed = 1
           /\ th[t].closes = 1
           /\ th[t].id \notin DOMAIN registry
           /\ \A id \in DOMAIN registry :
                  id \in DOMAIN th[t].regBefore /\ registry[id] = th[t].regBefore[id]

\* a Commit of a registered id has returned a duplicate-key failure met at
\* its second bulk
C2_Witness ==
    \E t \in Workers :
        /\ Returned(t) /\ th[t].op = "Commit"
        /\ th[t].id \in DOMAIN th[t].regBefore
        /\ th[t].result = "ConstraintViolation"
        /\ th[t].ran = 2

\* C3: once an id has been retired by Commit or Abort (and not registered
\* again), Commit(id) returns TransactionNotFound and runs no bulk; no bulk
\* is ever run twice.
C3_RetiredCommitFails ==
    /\ \A t \in Workers :
           (Returned(t) /\ th[t].op = "Commit" /\ th[t].retiredBefore)
           => /\ th[t].result = "TransactionNotFound"
              /\ th[t].ran = 0
    /\ \A kb \in AllBulks : txns[kb[1]].bulks[kb[2]].runs <= 1
    /\ \A id \in retired : id \notin DOMAIN registry

\* a Commit of a retired id has returned
C3_Witness ==
    \E t \in Workers :
        /\ Returned(t) /\ th[t].op = "Commit" /\ th[t].retiredBefore
        /\ th[t].result = "TransactionNotFound"

\* the bulks of the transaction worker t works on
MyBulks(t) == txns[th[t].txn].bulks

\* what the objects of a Create leave staged when its finalizer rejects the
\* failAt-th of them (0: none rejected)
ExpectedStaged(objs, failAt) ==
    IF failAt \in 1..Len(objs) THEN SubSeq(objs, 1, failAt - 1) ELSE objs

\* C4: a write call made with an empty TransactionID, whatever it returns,
\* has removed the transaction it registered and closed its session when it
\* returns: the registry is as it was before the call.
C4_ImplicitWriteRetires ==
    \A t \in Workers :
        (Returned(t) /\ th[t].op \in WriteOps /\ th[t].ctxTid = NoID
           /\ th[t].result # "panic")
        => /\ registry = th[t].regBefore
           /\ th[t].txn # Nil => txns[th[t].txn].closed = 1

\* C5 as stated: a write call made with a non-empty TransactionID returns
\* success and leaves its transaction registered, open and not executed.
C5_ExplicitWriteSucceeds ==
    \A t \in Workers :
        (Returned(t) /\ th[t].op \in WriteOps /\ th[t].ctxTid # NoID
           /\ th[t].result # "panic")
        => /\ th[t].result = "nil"
           /\ th[t].txn # Nil =>
                  /\ transactionWithID(th[t].ctxTid) = th[t].txn
                  /\ txns[th[t].txn].closed = 0
                  /\ th[t].ran = 0

\* C5 amended: a write call made with a non-empty TransactionID returns
\* success unless it is a Create whose finalizer fails (it returns that
\* error) or a Create given no object (it panics); the transaction it
\* resolved stays registered under the id and open, it is the one already
\* registered under the id if there was one, the call's operations are added
\* to those staged before, and no bulk of a registered transaction of a
\* caller-chosen id is run while no Commit of that id is under way.
C5_ExplicitWriteStaysOpen ==
    /\ \A t \in Workers :
           (Returned(t) /\ th[t].op \in WriteOps /\ th[t].ctxTid # NoID)
           => /\ th[t].result =
                     (IF th[t].op = "Create" /\ Len(th[t].objs) = 0 THEN "panic"
                      ELSE IF th[t].failAt \in 1..Len(th[t].objs) THEN "FinalizerError"
                      ELSE "nil")
              /\ IF th[t].txn = Nil
                 THEN registry = th[t].regBefore
                 ELSE /\ transactionWithID(th[t].ctxTid) = th[t].txn
                      /\ th[t].ctxTid \in DOMAIN th[t].regBefore
                             => th[t].regBefore[th[t].ctxTid] = th[t].txn
                      /\ txns[th[t].txn].closed = 0
                      /\ th[t].ran = 0
                      /\ TotalOps(txns[th[t].txn]) =
                             th[t].opsBefore + Len(ExpectedStaged(th[t].objs, th[t].failAt))
    /\ \A id \in (DOMAIN registry) \cap ExplicitIDs :
           (\A t \in Workers : ~(th[t].op = "Commit" /\ th[t].id = id))
           => \A b \in 1..Len(txns[registry[id]].bulks) :
                  txns[registry[id]].bulks[b].runs = 0

\* a write call under a caller-chosen id has returned success after adding
\* a second bulk to the transaction an earlier call registered
C5_Witness ==
    \E t \in Workers :
        /\ Returned(t) /\ th[t].op \in WriteOps /\ th[t].ctxTid # NoID
        /\ th[t].result = "nil"
        /\ th[t].opsBefore > 0
        /\ Len(MyBulks(t)) = 2

\* worker t is in Commit (called directly or from a write call) past a
\* lookup that found the transaction
InCommit(t) ==
    /\ th[t].txn # Nil
    /\ th[t].op # "Abort"
    /\ \/ th[t].pc \in {"run", "defer"}
       \/ th[t].pc = "done" /\ th[t].closes > 0

\* bulks 1..k-1 applied, bulk k run once and failed with outcome o, the
\* bulks after k not run
FailedAt(bs, k, o) ==
    /\ \A j \in 1..(k - 1) : bs[j].runs = 1 /\ bs[j].applied = 1
    /\ bs[k].runs = 1 /\ bs[k].applied = 0 /\ bs[k].last = o
    /\ \A j \in (k + 1)..Len(bs) : bs[j].runs = 0

\* C6: Commit runs the bulks in creation order and stops at the first that
\* fails: the bulks before it stay applied, those after it are never run,
\* and the error is ConstraintViolation for a duplicate key and CannotCommit
\* otherwise.
C6_CommitStopsAtFirstFailure ==
    \A t \in Workers :
        InCommit(t) =>
            LET bs == MyBulks(t)
            IN  IF th[t].pc = "run"
                THEN /\ \A j \in 1..(th[t].i - 1) : bs[j].runs = 1 /\ bs[j].applied = 1
                     /\ \A j \in th[t].i..Len(bs) : bs[j].runs = 0
                ELSE \/ /\ th[t].result = "nil"
                        /\ \A j \in 1..Len(bs) : bs[j].runs = 1 /\ bs[j].applied = 1
                     \/ /\ th[t].result = "ConstraintViolation"
                        /\ \E k \in 1..Len(bs) : FailedAt(bs, k, "dup")
                     \/ /\ th[t].result = "CannotCommit"
                        /\ \E k \in 1..Len(bs) : FailedAt(bs, k, "err")

\* a Commit has returned CannotCommit from the first of two bulks, the
\* second one left unrun
C6_Witness ==
    \E t \in Workers :
        /\ Returned(t) /\ th[t].op = "Commit" /\ th[t].result = "CannotCommit"
        /\ Len(MyBulks(t)) = 2
        /\ FailedAt(MyBulks(t), 1, "err")

\* C7: Abort(id) returns false and changes nothing when the registry does
\* not hold id; otherwise it closes the session once, removes id from the
\* registry and returns true, and no operation staged under id has been or
\* can still be run: no bulk of the transaction was run and the registry no
\* longer leads to it.
C7_Abort ==
    \A t \in Workers :
        (Returned(t) /\ th[t].op = "Abort")
        => IF th[t].id \notin DOMAIN th[t].regBefore
           THEN /\ th[t].result = "false"
                /\ registry = th[t].regBefore
                /\ th[t].closes = 0 /\ th[t].ran = 0
           ELSE /\ th[t].result = "true"
                /\ th[t].txn = th[t].regBefore[th[t].id]
                /\ txns[th[t].txn].closed = 1
                /\ th[t].id \notin DOMAIN registry
                /\ \A id \in DOMAIN registry : registry[id] # th[t].txn
                /\ th[t].ran = 0
                /\ \A b \in 1..Len(MyBulks(t)) : MyBulks(t)[b].runs = 0

\* an Abort has returned true for a transaction with operations staged in
\* two bulks
C7_Witness ==
    \E t \in Workers :
        /\ Returned(t) /\ th[t].op = "Abort" /\ th[t].result = "true"
        /\ Len(MyBulks(t)) = 2
        /\ TotalOps(txns[th[t].txn]) = 2

\* C8: when the CreateFinalizer fails on the i-th object, Create returns the
\* finalizer's error, the inserts of objects 1..i-1 are staged at the end of
\* the batch, unexecuted, and nothing is staged for object i or a later one.
C8_FinalizerFailure ==
    \A t \in Workers :
        (Returned(t) /\ th[t].op = "Create" /\ th[t].failAt \in 1..Len(th[t].objs))
        => LET bs == MyBulks(t)
               k == BulkIndex(txns[th[t].txn], th[t].objs[1])
               want == SubSeq(th[t].objs, 1, th[t].failAt - 1)
           IN  /\ th[t].result = "FinalizerError"
               /\ k # 0
               /\ Len(bs[k].ops) >= Len(want)
               /\ SubSeq(bs[k].ops, Len(bs[k].ops) - Len(want) + 1, Len(bs[k].ops)) = want
               /\ TotalOps(txns[th[t].txn]) = th[t].opsBefore + Len(want)
               /\ th[t].ran = 0
               /\ transactionWithID(th[t].id) = th[t].txn

\* a Create of two objects has returned the finalizer's error met at the
\* second one
C8_Witness ==
    \E t \in Workers :
        /\ Returned(t) /\ th[t].op = "Create"
        /\ Len(th[t].objs) = 2 /\ th[t].failAt = 2
        /\ th[t].result = "FinalizerError"
        /\ TotalOps(txns[th[t].txn]) = th[t].opsBefore + 1

\* C9: at any time there is at most one open Transaction per id, also when
\* concurrent write calls present the same id that is not yet registered.
C9_OneTransactionPerId ==
    \A id \in ExplicitIDs :
        Cardinality({k \in LiveSlots : txns[k].id = id /\ txns[k].closed = 0}) <= 1

\* ceil(n / s) for s > 0
CeilDiv(n, s) == (n + s - 1) \div s

\* C10: for Page P < 0, PageSize S > 0 and count N, with page = -P and
\* skip = N - page*S: the find query has the window (skip, S) when skip >= 0;
\* when skip < 0 and page > ceil(N/S) the call returns success without a
\* find query; when skip < 0 and page <= ceil(N/S) the window is (0, N mod S).
C10_ReversePaging ==
    \A t \in Workers :
        (Returned(t) /\ th[t].op = "RetrieveMany" /\ th[t].rd.counted = "ok"
           /\ th[t].rd.page < 0 /\ th[t].rd.pageSize > 0)
        => LET r == th[t].rd
               page == 0 - r.page
               skip == r.n - page * r.pageSize
           IN  IF skip >= 0
               THEN r.query = "window" /\ r.skip = skip /\ r.limit = r.pageSize
               ELSE IF page > CeilDiv(r.n, r.pageSize)
               THEN r.query = "none" /\ th[t].result = "nil"
               ELSE r.query = "window" /\ r.skip = 0 /\ r.limit = r.n % r.pageSize

\* the last reverse page of ten items by three has been asked for: it is
\* the short leading page
C10_Witness ==
    \E t \in Workers :
        /\ Returned(t) /\ th[t].op = "RetrieveMany" /\ th[t].rd.counted = "ok"
        /\ th[t].rd.page = 0 - 4 /\ th[t].rd.pageSize = 3 /\ th[t].rd.n = 10
        /\ th[t].rd.query = "window" /\ th[t].rd.skip = 0 /\ th[t].rd.limit = 1


----------------------------------------------------------------------------
(* Properties of the read path *)

ReadOps == {"Retrieve", "RetrieveMany", "Count"}

\* a RetrieveMany call that has returned
Paged(t) == Returned(t) /\ th[t].op = "RetrieveMany"

\* the items, numbered 0..n-1 in the order of the collection, a query returns
\* from a collection of n items: the backend skips `skip` items and returns
\* at most `limit` of the rest, a limit of 0 meaning no limit
Slice(q, n) ==
    IF q.query = "none" THEN {}
    ELSE IF q.query = "all" THEN 0..(n - 1)
    ELSE {k \in 0..(n - 1) : k >= q.skip /\ (q.limit = 0 \/ k < q.skip + q.limit)}

\* the block of s items number p counted from the front, cut at the end
ForwardBlock(n, p, s) == {k \in 0..(n - 1) : (p - 1) * s <= k /\ k < p * s}

\* the block of s items number p counted from the end, cut at the front
ReverseBlock(n, p, s) == {k \in 0..(n - 1) : n - p * s <= k /\ k < n - (p - 1) * s}

\* the slice page p of size s selects from n items once Count has answered n
PageSlice(p, s, n) == Slice(PageQuery(p, s, n, FALSE), n)

\* C11: for every count N >= 0, page size S > 0 and page P # 0 with
\* |P| <= ceil(N/S) + 1, the window of page P selects the block of S items
\* number P from the front (P > 0) or number |P| from the end (P < 0), cut at
\* the boundary of the collection; two different pages of the same sign share
\* no item; and the reverse pages 1..ceil(N/S) cover each item exactly once
C11_SlicesPartition ==
    \A t \in Workers :
        (Paged(t) /\ th[t].rd.pageSize > 0 /\ th[t].rd.page # 0
                  /\ th[t].rd.counted # "failed") =>
            LET p == th[t].rd.page
                s == th[t].rd.pageSize
            IN  /\ p > 0 =>
                     \A n \in 0..MaxCount :
                         p <= CeilDiv(n, s) + 1 =>
                             /\ Slice(th[t].rd, n) = ForwardBlock(n, p, s)
                             /\ \A q \in 1..(CeilDiv(n, s) + 1) :
                                    q # p => Slice(th[t].rd, n) \cap PageSlice(q, s, n) = {}
                /\ (p < 0 /\ 0 - p <= CeilDiv(th[t].rd.n, s) + 1) =>
                     LET n == th[t].rd.n
                     IN  /\ Slice(th[t].rd, n) = ReverseBlock(n, 0 - p, s)
                         /\ \A q \in 1..(CeilDiv(n, s) + 1) :
                                q # 0 - p =>
                                    Slice(th[t].rd, n) \cap PageSlice(0 - q, s, n) = {}
                         /\ \A k \in 0..(n - 1) :
                                Cardinality({q \in 1..CeilDiv(n, s) :
                                                k \in PageSlice(0 - q, s, n)}) = 1

\* the last reverse page of 8 items by 3 has returned the first two items
C11_Witness ==
    \E t \in Workers :
        /\ Paged(t) /\ th[t].rd.page = 0 - 3 /\ th[t].rd.pageSize = 3
        /\ th[t].rd.counted = "ok" /\ th[t].rd.n = 8
        /\ Slice(th[t].rd, 8) = {0, 1}

\* C12 as stated: for N >= S > 0 and every P >= 1 with P <= ceil(N/S) + 1,
\* the slices of page P and of page -P share no item
C12_MirrorPagesDisjoint ==
    \A t \in Workers :
        (Paged(t) /\ th[t].rd.counted = "ok" /\ th[t].rd.page < 0
                  /\ th[t].rd.pageSize > 0 /\ th[t].rd.n >= th[t].rd.pageSize
                  /\ 0 - th[t].rd.page <= CeilDiv(th[t].rd.n, th[t].rd.pageSize) + 1) =>
            Slice(th[t].rd, th[t].rd.n)
                \cap PageSlice(0 - th[t].rd.page, th[t].rd.pageSize, th[t].rd.n) = {}

\* C12 amended: for N >= S > 0 and every P >= 1 with P <= ceil(N/S) + 1, the
\* slices of page P and of page -P share no item exactly when the two blocks
\* lie on different sides of the middle of the collection, 2*P*S <= N or
\* N <= 2*(P-1)*S; otherwise they share an item
C12_MirrorPagesDisjointAwayFromMiddle ==
    \A t \in Workers :
        (Paged(t) /\ th[t].rd.counted = "ok" /\ th[t].rd.page < 0
                  /\ th[t].rd.pageSize > 0 /\ th[t].rd.n >= th[t].rd.pageSize
                  /\ 0 - th[t].rd.page <= CeilDiv(th[t].rd.n, th[t].rd.pageSize) + 1) =>
            LET p == 0 - th[t].rd.page
                s == th[t].rd.pageSize
                n == th[t].rd.n
            IN  (Slice(th[t].rd, n) \cap PageSlice(p, s, n) = {})
                    <=> (2 * p * s <= n \/ n <= 2 * (p - 1) * s)

\* page -2 of 10 items by 3 has returned items 4..6, of which page 2 returns
\* 4 and 5
C12_Witness ==
    \E t \in Workers :
        /\ Paged(t) /\ th[t].rd.page = 0 - 2 /\ th[t].rd.pageSize = 3
        /\ th[t].rd.counted = "ok" /\ th[t].rd.n = 10
        /\ Slice(th[t].rd, 10) \cap PageSlice(2, 3, 10) = {4, 5}

\* C13: for Page > 0 and PageSize > 0 RetrieveMany issues one query with
\* skip = (Page-1)*PageSize and limit = PageSize, whatever the total count,
\* and never calls Count
C13_ForwardPaging ==
    \A t \in Workers :
        (Paged(t) /\ th[t].rd.page > 0 /\ th[t].rd.pageSize > 0) =>
            /\ th[t].rd.counted = "no"
            /\ th[t].rd.query = "window"
            /\ th[t].rd.skip = (th[t].rd.page - 1) * th[t].rd.pageSize
            /\ th[t].rd.limit = th[t].rd.pageSize

\* page 3 by 2 has returned
C13_Witness ==
    \E t \in Workers :
        /\ Paged(t) /\ th[t].rd.page = 3 /\ th[t].rd.pageSize = 2
        /\ th[t].rd.skip = 4 /\ th[t].rd.limit = 2 /\ th[t].result = "nil"

\* C14: whenever PageSize <= 0 and Page <= 0 together, both negative
\* included, RetrieveMany fetches everything unpaginated: no Count, no skip,
\* no limit
C14_FetchAllWhenNeitherPositive ==
    \A t \in Workers :
        (Paged(t) /\ th[t].rd.page <= 0 /\ th[t].rd.pageSize <= 0) =>
            /\ th[t].rd.counted = "no"
            /\ th[t].rd.query = "all"

\* C18: on the clamped reverse branch (Page < 0, PageSize > 0, count N less
\* than |Page|*PageSize, |Page| <= ceil(N/S)) the query has skip 0 and limit
\* N mod S, which is at least 1; when N is a multiple of S no query is issued
\* on this branch, so a limit of 0, which the backend reads as no limit, is
\* never sent
C18_ClampedLimitPositive ==
    \A t \in Workers :
        (Paged(t) /\ th[t].rd.counted = "ok" /\ th[t].rd.page < 0
                  /\ th[t].rd.pageSize > 0
                  /\ th[t].rd.n + th[t].rd.page * th[t].rd.pageSize < 0) =>
            /\ th[t].rd.query = "window" =>
                   /\ th[t].rd.skip = 0
                   /\ th[t].rd.limit = th[t].rd.n % th[t].rd.pageSize
                   /\ th[t].rd.limit >= 1
                   /\ 0 - th[t].rd.page <= CeilDiv(th[t].rd.n, th[t].rd.pageSize)
            /\ th[t].rd.n % th[t].rd.pageSize = 0 => th[t].rd.query = "none"

\* page -3 of 7 items by 3 has returned with a limit of 1
C18_Witness ==
    \E t \in Workers :
        /\ Paged(t) /\ th[t].rd.page = 0 - 3 /\ th[t].rd.pageSize = 3
        /\ th[t].rd.counted = "ok" /\ th[t].rd.n = 7
        /\ th[t].rd.query = "window" /\ th[t].rd.skip = 0 /\ th[t].rd.limit = 1

\* C15: a step of Retrieve, RetrieveMany or Count, whatever it returns,
\* leaves the registry, every transaction object with its staged bulks and
\* the retired ids unchanged, and resolves no transaction from the
\* TransactionID of its context
C15_ReadsLeaveRegistry ==
    [][\A t \in Workers :
          (th[t].op \in ReadOps \/ th'[t].op \in ReadOps) =>
              /\ registry' = registry
              /\ txns' = txns
              /\ retired' = retired
              /\ th'[t].txn = Nil /\ th'[t].id = NoID]_vars

\* Count has returned under the id of a registered transaction that holds a
\* staged operation
C15_Witness ==
    \E t \in Workers :
        /\ Returned(t) /\ th[t].op = "Count" /\ th[t].result = "nil"
        /\ th[t].ctxTid \in DOMAIN registry
        /\ TotalOps(txns[registry[th[t].ctxTid]]) >= 1

\* C16: Retrieve looks the objects up in argument order and stops at the
\* first failing lookup: it returns ObjectNotFound when that lookup matched
\* nothing and CannotExecuteQuery when it failed otherwise, looks up no
\* object after it, and returns success exactly when every object was found
C16_RetrieveStopsAtFirstFailure ==
    \A t \in Workers :
        (Returned(t) /\ th[t].op = "Retrieve") =>
            LET o == th[t].rd.outcomes
                fails == {k \in 1..Len(o) : o[k] # "found"}
            IN  /\ (th[t].result = "nil") <=> (fails = {})
                /\ fails = {} => th[t].rd.looked = Len(o)
                /\ fails # {} =>
                       LET k == CHOOSE j \in fails : \A m \in fails : j <= m
                       IN  /\ th[t].rd.looked = k
                           /\ o[k] = "notfound" => th[t].result = "ObjectNotFound"
                           /\ o[k] = "err" => th[t].result = "CannotExecuteQuery"

\* the first of two lookups matched nothing and the second was not made
C16_Witness ==
    \E t \in Workers :
        /\ Returned(t) /\ th[t].op = "Retrieve"
        /\ th[t].rd.outcomes = <<"notfound", "err">>
        /\ th[t].rd.looked = 1 /\ th[t].result = "ObjectNotFound"

\* C17: whatever the interleaving of two calls retiring the same registered
\* id (Commit with Commit, or Commit with Abort), every staged bulk of the
\* transaction is executed at most once and its session is closed at most
\* once
C17_RetiredAtMostOnce ==
    \A t \in Workers, u \in Workers :
        (/\ t # u
         /\ th[t].op = "Commit" /\ th[u].op \in {"Commit", "Abort"}
         /\ th[t].txn # Nil /\ th[u].txn = th[t].txn) =>
            /\ txns[th[t].txn].closed <= 1
            /\ \A b \in 1..Len(txns[th[t].txn].bulks) :
                   txns[th[t].txn].bulks[b].runs <= 1

\* C19: Create, Update and Delete given no object return success and leave
\* the registry as it was: no transaction is resolved or registered, nothing
\* is staged
C19_EmptyListIsNoOp ==
    \A t \in Workers :
        (Returned(t) /\ th[t].op \in {"Create", "Update", "Delete"}
                     /\ Len(th[t].objs) = 0) =>
            /\ th[t].result = "nil"
            /\ th[t].txn = Nil
            /\ registry = th[t].regBefore

\* C20: every staged operation sits in the bulk of its own object's
\* category, also after calls whose object list mixes categories
C20_BulkHoldsOneCategory ==
    \A kb \in AllBulks :
        LET bulk == txns[kb[1]].bulks[kb[2]]
        IN  \A i \in 1..Len(bulk.ops) : bulk.ops[i] = bulk.cat

============================================================================
